---- MODULE Spec2Model ----
(***************************************************************************)
(* A model of the asynchronous helpers of kitium-ai/test-utils:            *)
(*   retry      retry with exponential backoff                             *)
(*   waitUntil  poll a condition until it is true or a timeout elapses     *)
(* Each async function is cut at its await points: the code that runs      *)
(* between two awaits is synchronous in JavaScript and is one action.      *)
(***************************************************************************)
EXTENDS Integers, Sequences, FiniteSets, TLC

VARIABLES
    retryOptions,   \* the options object passed to retry
    rpc,            \* where the retry call is: ready, awaitFn, awaitTimer, returned, thrown
    attempt,        \* retry: the loop variable
    lastError,      \* retry: the local lastError
    delay,          \* retry: the local delay of the pending timer
    returned,       \* retry: the value the call resolved with
    raised,         \* retry: the error the call rejected with
    calls,          \* history: the outcome of every invocation of fn, in order
    onRetryCalls,   \* history: the arguments of every onRetry call, in order
    delays,         \* history: the delay of every timer retry has set, in order
    trace,          \* history: what retry did, in order
    waitOptions,    \* the options object passed to waitUntil
    wpc,            \* where the waitUntil call is: ready, awaitCondition, awaitTimer, returned, thrown
    now,            \* Date.now()
    startTime,      \* waitUntil: the local startTime
    waitRaised,     \* waitUntil: the message of the error the call rejected with
    evaluations,    \* history: how many times condition was called
    sleeps,         \* history: how many timers waitUntil has set
    firstOutcome,   \* history: what the first call of condition gave
    seen,           \* history: the outcomes condition has given
    slow,           \* history: whether a call of condition took time
    timers,         \* history: the delay of every timer waitUntil has set, in order
    handlers,       \* HttpMockRegistry.handlers: Map from key to array of handlers
    requests,       \* HttpMockRegistry.requests
    gotArray,       \* the array getRequests / getRequestsByMethod returned, while the caller uses it
    gotAliased,     \* whether that array is this.requests itself
    found,          \* what the last call returned, when it was getHandler
    lastOp,         \* the last call made on the registry
    wasMade,        \* what the last call returned, when it was wasRequestMade
    registered,     \* history: the handlers registered since the last clear, in order
    responses,      \* ApiResponseChain.responses
    index,          \* ApiResponseChain.index
    served,         \* history: what next() has returned since construction or the last reset(), in order
    mixed,          \* history: whether a response was added after a next() since then
    chainOp,        \* the last call made on the chain
    allGot,         \* the array getAll returned, when it was the last call
    cleanupFns,     \* TestCleanupManager.cleanupFns
    cpc,            \* where the cleanup() call is: idle, awaitFn, resolved, rejected
    cleanupIndex,   \* cleanup: the loop variable i
    ran,            \* history: the functions the current or last cleanup() has called, in order
    logged,         \* history: how many failures it has logged with console.error
    atCall,         \* history: cleanupFns as that cleanup() call found it
    parallelOptions, \* the options object passed to runTestsInParallel
    testCount,      \* tests.length
    ppc,            \* where the runTestsInParallel call is: ready, awaitPromise, awaitRace, awaitAll, resolved, rejected
    loopI,          \* runTestsInParallel: the loop variable i
    testState,      \* tests[i]: none, scheduled (then(test) not run yet), running
    inFlight,       \* the tests that have started and not settled
    results,        \* runTestsInParallel: the local results
    executing,      \* runTestsInParallel: the local executing, each promise named by the index of its test
    maxInFlight,    \* history: the largest number of tests in flight at one time
    overlapped,     \* history: whether a test started while another was in flight
    seed,           \* createFactory: the local seed of each factory
    passed,         \* history: the seeds each factory has passed to its default factory, in order
    lastCall,       \* the last call of a factory: which one, its overrides, what it gave
    interceptors,   \* HttpMockServer.interceptors
    serverRequests, \* HttpMockServer.requests, each request by its method
    fallbackResponse, \* HttpMockServer.fallbackResponse
    spc,            \* where the handleRequest call is: idle, awaitHandle, returned
    handled,        \* the last handleRequest: its request and the interceptors whose match / handle it called, in order
    answer,         \* what that call answered: pending, resolved with a response, rejected
    waitingFor,     \* handleRequest: the interceptor whose handle it awaits
    serverOp,       \* the last call made on the server
    fpc,            \* where the withFixture call is: ready, awaitSetup, awaitTest, awaitTeardown, resolved, rejected
    fixtureData,    \* withFixture: the local data
    pendingError,   \* withFixture: what the try block threw, while the finally block runs
    fixtureRaised,  \* withFixture: the error the call rejected with
    fixtureEvents,  \* history: the calls of setup, testFn and teardown and how they ended, in order
    fixtureRuns,    \* history: how many times withFixture was called
    dbUrl,          \* TestDatabase.config.url
    connected,      \* TestDatabase.connected
    seedData,       \* TestDatabase.seedData, by its tables
    tpc,            \* where the transaction call is: idle, awaitFn
    dbResult,       \* the last call made on the database and how it ended
    lastConnection  \* history: the last of connect() succeeding and disconnect()

retryVars == <<retryOptions, rpc, attempt, lastError, delay, returned, raised,
               calls, onRetryCalls, delays, trace>>

waitVars == <<waitOptions, wpc, now, startTime, waitRaised, evaluations, sleeps,
              firstOutcome, seen, slow, timers>>

registryVars == <<handlers, requests, gotArray, gotAliased, found, lastOp, wasMade,
                  registered>>

chainVars == <<responses, index, served, mixed, chainOp, allGot>>

cleanupVars == <<cleanupFns, cpc, cleanupIndex, ran, logged, atCall>>

parallelVars == <<parallelOptions, testCount, ppc, loopI, testState, inFlight,
                  results, executing, maxInFlight, overlapped>>

factoryVars == <<seed, passed, lastCall>>

serverVars == <<interceptors, serverRequests, fallbackResponse, spc, handled,
                answer, waitingFor, serverOp>>

fixtureVars == <<fpc, fixtureData, pendingError, fixtureRaised, fixtureEvents,
                 fixtureRuns>>

databaseVars == <<dbUrl, connected, seedData, tpc, dbResult, lastConnection>>

vars == <<retryVars, waitVars, registryVars, chainVars, cleanupVars,
          parallelVars, factoryVars, serverVars, fixtureVars, databaseVars>>

(* What a step of one component leaves alone: the state of the others *)
outsideRetry == <<waitVars, registryVars, chainVars, cleanupVars,
                  parallelVars, factoryVars, serverVars, fixtureVars,
                  databaseVars>>

outsideWait == <<retryVars, registryVars, chainVars, cleanupVars,
                 parallelVars, factoryVars, serverVars, fixtureVars,
                 databaseVars>>

outsideRegistry == <<retryVars, waitVars, chainVars, cleanupVars,
                     parallelVars, factoryVars, serverVars, fixtureVars,
                     databaseVars>>

outsideChain == <<retryVars, waitVars, registryVars, cleanupVars,
                  parallelVars, factoryVars, serverVars, fixtureVars,
                  databaseVars>>

outsideCleanup == <<retryVars, waitVars, registryVars, chainVars,
                    parallelVars, factoryVars, serverVars, fixtureVars,
                    databaseVars>>

outsideParallel == <<retryVars, waitVars, registryVars, chainVars,
                     cleanupVars, factoryVars, serverVars, fixtureVars,
                     databaseVars>>

outsideFactory == <<retryVars, waitVars, registryVars, chainVars,
                    cleanupVars, parallelVars, serverVars, fixtureVars,
                    databaseVars>>

outsideServer == <<retryVars, waitVars, registryVars, chainVars, cleanupVars,
                   parallelVars, factoryVars, fixtureVars, databaseVars>>

outsideFixture == <<retryVars, waitVars, registryVars, chainVars,
                    cleanupVars, parallelVars, factoryVars, serverVars,
                    databaseVars>>

outsideDatabase == <<retryVars, waitVars, registryVars, chainVars,
                     cleanupVars, parallelVars, factoryVars, serverVars,
                     fixtureVars>>

----------------------------------------------------------------------------
(* Bounds of the model *)

MaxAttemptsBound == 4

MaxPolls == 50

MaxRegistered == 2

MaxRecorded == 2

(* Program constants *)

DefaultMaxAttempts == 3
DefaultDelayMs == 100
DefaultBackoffMultiplier == 2
DefaultTimeoutMs == 5000
DefaultPollIntervalMs == 100

----------------------------------------------------------------------------
(* Optional properties of an options object: absent or given *)

None == [some |-> FALSE, v |-> 0]

Some(x) == [some |-> TRUE, v |-> x]

OrDefault(opt, d) == IF opt.some THEN opt.v ELSE d

(* Values an operation can throw, the errors retry makes of them, and the
   values it can resolve with *)

Null == [kind |-> "null", message |-> ""]

ThrownValues ==
    { [kind |-> "Error", message |-> "E1"],
      [kind |-> "Error", message |-> "E2"],
      [kind |-> "string", message |-> "s"] }

SuccessValues == {"v1", "v2"}

MaxAttemptsError == [kind |-> "Error", message |-> "Max retry attempts reached"]

Outcomes ==
    { [ok |-> TRUE, value |-> v, thrown |-> Null] : v \in SuccessValues }
    \cup { [ok |-> FALSE, value |-> "", thrown |-> e] : e \in ThrownValues }

RECURSIVE Pow(_, _)
Pow(b, e) == IF e = 0 THEN 1 ELSE b * Pow(b, e - 1)

----------------------------------------------------------------------------
(* retry *)

RetryOptionsSet ==
    [ maxAttempts : {None} \cup { Some(n) : n \in 0..MaxAttemptsBound },
      delayMs : {None} \cup { Some(d) : d \in {0, 1, 10} },
      backoffMultiplier : {None} \cup { Some(m) : m \in {1, 2, 3} },
      onRetry : BOOLEAN ]

maxAttempts == OrDefault(retryOptions.maxAttempts, DefaultMaxAttempts)

delayMs == OrDefault(retryOptions.delayMs, DefaultDelayMs)

backoffMultiplier == OrDefault(retryOptions.backoffMultiplier, DefaultBackoffMultiplier)

Ev(kind, a) == [ev |-> kind, attempt |-> a]

(* error instanceof Error ? error : new Error(String(error)) *)
ToError(thrown) ==
    IF thrown.kind = "Error" THEN thrown
    ELSE [kind |-> "Error", message |-> thrown.message]

KeepFirstError(prev, thrown) == IF prev = Null THEN ToError(thrown) ELSE prev

CaughtError(prev, thrown) == ToError(thrown)

LoopConditionOneMore(a) == a <= maxAttempts + 1

LoopCondition(a) == a <= maxAttempts

ShouldRetryAlways(a) == a <= maxAttempts

ShouldRetry(a) == a < maxAttempts

BackoffDelayOffByOne(a) == delayMs * Pow(backoffMultiplier, a)

BackoffDelay(a) == delayMs * Pow(backoffMultiplier, a - 1)

OnRetryAttemptZeroBased(a) == a - 1

OnRetryAttempt(a) == a

(* throw lastError || new Error('Max retry attempts reached') *)
ThrownAtEnd(le) == IF le # Null THEN le ELSE MaxAttemptsError

(* What the catch block does before its await, in the order it does it *)
TimerThenOnRetry(a) ==
    <<Ev("setTimeout", a)>>
    \o (IF retryOptions.onRetry THEN <<Ev("onRetry", OnRetryAttempt(a))>> ELSE <<>>)

RetryingEvents(a) ==
    (IF retryOptions.onRetry THEN <<Ev("onRetry", OnRetryAttempt(a))>> ELSE <<>>)
    \o <<Ev("setTimeout", a)>>

(* The head of the for loop with attempt = a: the test, then either the
   call of fn (up to its await) or the throw after the loop *)
LoopHead(a, le, tr) ==
    /\ attempt' = a
    /\ IF LoopCondition(a)
         THEN /\ rpc' = "awaitFn"
              /\ trace' = Append(tr, Ev("invoke", a))
              /\ raised' = raised
         ELSE /\ rpc' = "thrown"
              /\ trace' = Append(tr, Ev("throw", a))
              /\ raised' = ThrownAtEnd(le)

RetryStart ==
    /\ rpc = "ready"
    /\ lastError' = Null
    /\ LoopHead(1, Null, trace)
    /\ UNCHANGED <<retryOptions, delay, returned, calls, onRetryCalls, delays>>
    /\ UNCHANGED outsideRetry

RetryFnResolvesThenWaits ==
    /\ rpc = "awaitFn"
    /\ \E o \in Outcomes :
        /\ o.ok
        /\ calls' = Append(calls, o)
        /\ returned' = o.value
        /\ rpc' = "returned"
        /\ delays' = Append(delays, BackoffDelay(attempt))
        /\ trace' = trace \o <<Ev("resolve", attempt), Ev("setTimeout", attempt),
                               Ev("return", attempt)>>
    /\ UNCHANGED <<retryOptions, attempt, lastError, delay, raised, onRetryCalls>>
    /\ UNCHANGED outsideRetry

(* return await fn(), fn resolving *)
RetryFnResolves ==
    /\ rpc = "awaitFn"
    /\ \E o \in Outcomes :
        /\ o.ok
        /\ calls' = Append(calls, o)
        /\ returned' = o.value
        /\ rpc' = "returned"
        /\ trace' = trace \o <<Ev("resolve", attempt), Ev("return", attempt)>>
    /\ UNCHANGED <<retryOptions, attempt, lastError, delay, raised, onRetryCalls, delays>>
    /\ UNCHANGED outsideRetry

(* return await fn(), fn rejecting: the catch block, and when there is no
   retry left the loop increment, the failing loop test and the throw.
   onRetry is the caller's notification callback: it is called with
   (attempt, lastError) and is taken to return normally. *)
RetryFnRejects ==
    /\ rpc = "awaitFn"
    /\ \E o \in Outcomes :
        /\ ~o.ok
        /\ calls' = Append(calls, o)
        /\ lastError' = CaughtError(lastError, o.thrown)
        /\ IF ShouldRetry(attempt)
             THEN /\ delay' = BackoffDelay(attempt)
                  /\ onRetryCalls' =
                        IF retryOptions.onRetry
                          THEN Append(onRetryCalls,
                                      [attempt |-> OnRetryAttempt(attempt),
                                       error |-> lastError'])
                          ELSE onRetryCalls
                  /\ delays' = Append(delays, delay')
                  /\ trace' = (trace \o <<Ev("reject", attempt)>>) \o RetryingEvents(attempt)
                  /\ rpc' = "awaitTimer"
                  /\ UNCHANGED <<attempt, raised>>
             ELSE /\ LoopHead(attempt + 1, lastError', Append(trace, Ev("reject", attempt)))
                  /\ UNCHANGED <<delay, onRetryCalls, delays>>
    /\ UNCHANGED <<retryOptions, returned>>
    /\ UNCHANGED outsideRetry

(* The timer of the catch block fires: the loop increment and the next
   loop head *)
RetryTimerFires ==
    /\ rpc = "awaitTimer"
    /\ LoopHead(attempt + 1, lastError, Append(trace, Ev("timer", attempt)))
    /\ UNCHANGED <<retryOptions, lastError, delay, returned, calls, onRetryCalls, delays>>
    /\ UNCHANGED outsideRetry

RetryBegins ==
    /\ rpc = "ready"
    /\ attempt = 0
    /\ lastError = Null
    /\ delay = 0
    /\ returned = ""
    /\ raised = Null
    /\ calls = <<>>
    /\ onRetryCalls = <<>>
    /\ delays = <<>>
    /\ trace = <<>>

RetryInit == retryOptions \in RetryOptionsSet /\ RetryBegins

RetryIdle ==
    /\ retryOptions = [maxAttempts |-> None, delayMs |-> None,
                       backoffMultiplier |-> None, onRetry |-> FALSE]
    /\ RetryBegins

----------------------------------------------------------------------------
(* waitUntil *)

DefaultMessage == "Timeout waiting for condition"

(* A timer set for d ms fires d ms later, and no sooner than 1 ms later *)
TimerElapsed(d) == IF d < 1 THEN 1 ELSE d

PollsNeeded(timeout, interval) ==
    (timeout + TimerElapsed(interval) - 1) \div TimerElapsed(interval)

WaitOptionsSet ==
    { o \in [ timeoutMs : {None} \cup { Some(t) : t \in {0, 45, 50} },
              pollIntervalMs : {None} \cup { Some(i) : i \in {0, 10, 20} },
              message : {None} \cup { [some |-> TRUE, v |-> "not ready"] } ] :
        PollsNeeded(OrDefault(o.timeoutMs, DefaultTimeoutMs),
                    OrDefault(o.pollIntervalMs, DefaultPollIntervalMs)) <= MaxPolls }

StartTimes == {0, 1000}

(* What a call of condition gives, and how long it takes to give it *)
ConditionOutcomes == {"true", "false", "throws"}

EvaluationTimes == {0, 3}

timeoutMs == OrDefault(waitOptions.timeoutMs, DefaultTimeoutMs)

pollIntervalMs == OrDefault(waitOptions.pollIntervalMs, DefaultPollIntervalMs)

message == IF waitOptions.message.some THEN waitOptions.message.v ELSE DefaultMessage

WaitLoopConditionNoStart(start, t) == t < timeoutMs

(* Date.now() - startTime < timeoutMs *)
WaitLoopCondition(start, t) == t - start < timeoutMs

ConditionMetInverted(outcome) == outcome = "false"

(* result is truthy; a throwing condition gives no result *)
ConditionMet(outcome) == outcome = "true"

SleepMsOfTimeout == timeoutMs

(* setTimeout(resolve, pollIntervalMs) *)
SleepMs == pollIntervalMs

TimeoutMessageOfInterval == <<message, " (timeout: ", ToString(pollIntervalMs), "ms)">>

(* `${message} (timeout: ${timeoutMs}ms)` *)
TimeoutMessage == <<message, " (timeout: ", ToString(timeoutMs), "ms)">>

(* The head of the while loop at time t: the test, then either the call of
   condition (up to its await) or the throw after the loop *)
WaitLoopHead(start, t) ==
    IF WaitLoopCondition(start, t)
      THEN /\ wpc' = "awaitCondition"
           /\ evaluations' = evaluations + 1
           /\ waitRaised' = waitRaised
      ELSE /\ wpc' = "thrown"
           /\ evaluations' = evaluations
           /\ waitRaised' = TimeoutMessage

WaitStart ==
    /\ wpc = "ready"
    /\ startTime' = now
    /\ WaitLoopHead(now, now)
    /\ UNCHANGED <<waitOptions, now, sleeps, firstOutcome, seen, slow, timers>>
    /\ UNCHANGED outsideWait

(* A throwing condition ends the call with the condition's error *)
WaitConditionSettlesPropagating ==
    /\ wpc = "awaitCondition"
    /\ \E outcome \in ConditionOutcomes, took \in EvaluationTimes :
        /\ now' = now + took
        /\ slow' = (slow \/ took > 0)
        /\ seen' = seen \cup {outcome}
        /\ firstOutcome' = IF evaluations = 1 THEN outcome ELSE firstOutcome
        /\ IF ConditionMet(outcome)
             THEN wpc' = "returned" /\ sleeps' = sleeps /\ timers' = timers
                  /\ waitRaised' = waitRaised
             ELSE IF outcome = "throws"
               THEN wpc' = "thrown" /\ sleeps' = sleeps /\ timers' = timers
                    /\ waitRaised' = <<"condition failed">>
               ELSE wpc' = "awaitTimer" /\ sleeps' = sleeps + 1
                    /\ timers' = Append(timers, SleepMs)
                    /\ waitRaised' = waitRaised
    /\ UNCHANGED <<waitOptions, startTime, evaluations>>
    /\ UNCHANGED outsideWait

(* await condition() settles: return when the result is truthy, set the
   timer of the poll interval otherwise *)
WaitConditionSettles ==
    /\ wpc = "awaitCondition"
    /\ \E outcome \in ConditionOutcomes, took \in EvaluationTimes :
        /\ now' = now + took
        /\ slow' = (slow \/ took > 0)
        /\ seen' = seen \cup {outcome}
        /\ firstOutcome' = IF evaluations = 1 THEN outcome ELSE firstOutcome
        /\ IF ConditionMet(outcome)
             THEN wpc' = "returned" /\ sleeps' = sleeps /\ timers' = timers
             ELSE wpc' = "awaitTimer" /\ sleeps' = sleeps + 1
                  /\ timers' = Append(timers, SleepMs)
    /\ UNCHANGED <<waitOptions, startTime, waitRaised, evaluations>>
    /\ UNCHANGED outsideWait

(* A poll interval of 0 sets a timer that never fires *)
WaitTimerFiresUnlessZero ==
    /\ wpc = "awaitTimer"
    /\ timers[Len(timers)] > 0
    /\ now' = now + TimerElapsed(timers[Len(timers)])
    /\ WaitLoopHead(startTime, now')
    /\ UNCHANGED <<waitOptions, startTime, sleeps, firstOutcome, seen, slow, timers>>
    /\ UNCHANGED outsideWait

(* The timer of the poll interval fires: the next loop head *)
WaitTimerFires ==
    /\ wpc = "awaitTimer"
    /\ now' = now + TimerElapsed(timers[Len(timers)])
    /\ WaitLoopHead(startTime, now')
    /\ UNCHANGED <<waitOptions, startTime, sleeps, firstOutcome, seen, slow, timers>>
    /\ UNCHANGED outsideWait

WaitBegins ==
    /\ wpc = "ready"
    /\ startTime = 0
    /\ waitRaised = <<>>
    /\ evaluations = 0
    /\ sleeps = 0
    /\ firstOutcome = "none"
    /\ seen = {}
    /\ slow = FALSE
    /\ timers = <<>>

WaitInit == waitOptions \in WaitOptionsSet /\ now \in StartTimes /\ WaitBegins

WaitIdle ==
    /\ waitOptions = [timeoutMs |-> None, pollIntervalMs |-> None, message |-> None]
    /\ now = 0
    /\ WaitBegins
----------------------------------------------------------------------------
(* HttpMockRegistry *)

(* Strings whose characters the code looks at (urls, path patterns, keys)
   are sequences of characters; method names are looked at only through
   toUpperCase *)
Includes(str, part) ==
    \E i \in 0..(Len(str) - Len(part)) : SubSeq(str, i + 1, i + Len(part)) = part

ToUpperCase(m) ==
    CASE m = "get" -> "GET"
      [] m = "post" -> "POST"
      [] OTHER -> m

(* A path pattern: a string, or a RegExp that searches for a literal text,
   with its g flag and its lastIndex *)
StringPath(text) == [regex |-> FALSE, text |-> text, global |-> FALSE, lastIndex |-> 0]

RegExpPath(text, g) == [regex |-> TRUE, text |-> text, global |-> g, lastIndex |-> 0]

Handler(m, path, response) == [method |-> m, path |-> path, response |-> response]

Request(m, url) == [method |-> m, url |-> url]

NoHandler == Handler("", StringPath(<<>>), "")

NoRequest == Request("", <<>>)

HandlerChoices ==
    { Handler("GET", StringPath(<<"/", "a">>), "R1"),
      Handler("GET", StringPath(<<"/", "a">>), "R2"),
      Handler("POST", StringPath(<<"/", "a">>), "R1"),
      Handler("get", StringPath(<<"*">>), "R1"),
      Handler("GET", StringPath(<<"*">>), "R2"),
      Handler("GET", RegExpPath(<<"a">>, TRUE), "R1") }

RequestChoices ==
    { Request("GET", <<"/", "a">>),
      Request("get", <<"/", "a", "*">>),
      Request("POST", <<"/", "a">>),
      Request("GET", <<"/", "a", "/", "g">>) }

(* String(path) inside a template literal: the string itself, /source/flags
   of a RegExp *)
PathString(path) ==
    IF ~path.regex THEN path.text
    ELSE (<<"/">> \o path.text \o <<"/">>) \o (IF path.global THEN <<"g">> ELSE <<>>)

(* `${handler.method.toUpperCase()}:${handler.path}` *)
RegisterKey(h) == <<ToUpperCase(h.method), ":">> \o PathString(h.path)

LookupKeyOfUrl(req) == <<ToUpperCase(req.method), ":">> \o req.url

(* `${request.method.toUpperCase()}:*` *)
LookupKey(req) == <<ToUpperCase(req.method), ":", "*">>

(* Map.get: undefined for a key the map does not hold *)
MapGet(map, key) ==
    IF key \in DOMAIN map THEN [defined |-> TRUE, items |-> map[key]]
    ELSE [defined |-> FALSE, items |-> <<>>]

MapSet(map, key, value) ==
    [k \in DOMAIN map \cup {key} |-> IF k = key THEN value ELSE map[k]]

EmptyMap == [k \in {} |-> <<>>]

WithoutDefault(got) == got

(* this.handlers.get(key) || [] *)
OrEmptyArray(got) == IF got.defined THEN got ELSE [defined |-> TRUE, items |-> <<>>]

(* RegExp.prototype.test of a RegExp searching for a literal text: a global
   one searches from lastIndex and moves it *)
IndexFrom(str, part, from) ==
    LET at == { i \in from..(Len(str) - Len(part)) : SubSeq(str, i + 1, i + Len(part)) = part }
    IN IF at = {} THEN -1 ELSE CHOOSE i \in at : \A j \in at : i <= j

RegExpTest(url, path) ==
    IndexFrom(url, path.text, IF path.global THEN path.lastIndex ELSE 0) # -1

AfterTest(url, path) ==
    IF ~(path.regex /\ path.global) THEN path
    ELSE LET i == IndexFrom(url, path.text, path.lastIndex)
         IN [path EXCEPT !.lastIndex = IF i = -1 THEN 0 ELSE i + Len(path.text)]

(* pathMatches *)
PathMatches(url, pathPattern) ==
    IF ~pathPattern.regex THEN Includes(url, pathPattern.text)
    ELSE RegExpTest(url, pathPattern)

(* for (const handler of handlers) if (pathMatches(...)) return handler:
   the index of the handler returned, 0 when the loop ends without one *)
RECURSIVE FirstMatchFrom(_, _, _)
FirstMatchFrom(bucket, url, i) ==
    IF i > Len(bucket) THEN 0
    ELSE IF PathMatches(url, bucket[i].path) THEN i
    ELSE FirstMatchFrom(bucket, url, i + 1)

(* The handlers of the bucket after the loop: those it has tested carry the
   lastIndex their RegExp was left with *)
BucketAfterScan(bucket, url) ==
    LET hit == FirstMatchFrom(bucket, url, 1)
    IN [i \in 1..Len(bucket) |->
          IF hit = 0 \/ i <= hit
            THEN [bucket[i] EXCEPT !.path = AfterTest(url, @)]
            ELSE bucket[i]]

Undefined == [kind |-> "undefined", handler |-> NoHandler]

TypeError == [kind |-> "TypeError", handler |-> NoHandler]

NotCalled == [kind |-> "none", handler |-> NoHandler]

NotAsked == [asked |-> FALSE, value |-> FALSE]

Answered(b) == [asked |-> TRUE, value |-> b]

Op(name, req) == [op |-> name, req |-> req, dropped |-> 0]

(* A call of clear, with how many routes and log entries it found *)
ClearOp(n) == [op |-> "clear", req |-> NoRequest, dropped |-> n]

(* The caller is done with the array it was returned *)
DropsArray == gotArray' = <<>> /\ gotAliased' = FALSE

ReplaceHandler(bucket, h) == <<h>>

(* handlers.push(handler) *)
PushHandler(bucket, h) == Append(bucket, h)

(* register(handler), called as such or by mockGet / mockPost *)
RegisterHandler(name, h) ==
    /\ Len(registered) < MaxRegistered
    /\ LET key == RegisterKey(h)
           bucket == OrEmptyArray(MapGet(handlers, key)).items
       IN handlers' = MapSet(handlers, key, PushHandler(bucket, h))
    /\ registered' = Append(registered, h)
    /\ lastOp' = Op(name, NoRequest)
    /\ found' = NotCalled
    /\ wasMade' = NotAsked
    /\ DropsArray
    /\ UNCHANGED requests
    /\ UNCHANGED outsideRegistry

Register == \E h \in HandlerChoices : RegisterHandler("register", h)

MockGet ==
    \E h \in HandlerChoices : h.method = "GET" /\ RegisterHandler("mockGet", h)

MockPost ==
    \E h \in HandlerChoices : h.method = "POST" /\ RegisterHandler("mockPost", h)

(* getHandler(request) *)
GetHandler ==
    \E req \in RequestChoices :
        LET key == LookupKey(req)
            got == OrEmptyArray(MapGet(handlers, key))
            hit == FirstMatchFrom(got.items, req.url, 1)
        IN /\ found' = IF ~got.defined THEN TypeError
                       ELSE IF hit = 0 THEN Undefined
                       ELSE [kind |-> "handler", handler |-> got.items[hit]]
           /\ handlers' = IF key \in DOMAIN handlers /\ got.defined
                            THEN MapSet(handlers, key, BucketAfterScan(got.items, req.url))
                            ELSE handlers
           /\ lastOp' = Op("getHandler", req)
           /\ wasMade' = NotAsked
           /\ DropsArray
           /\ UNCHANGED <<requests, registered>>
           /\ UNCHANGED outsideRegistry

RecordOnlyMatched(log, req) ==
    IF FirstMatchFrom(OrEmptyArray(MapGet(handlers, LookupKey(req))).items, req.url, 1) # 0
      THEN Append(log, req) ELSE log

(* this.requests.push(request) *)
Pushed(log, req) == Append(log, req)

(* recordRequest(request) *)
RecordRequest ==
    \E req \in RequestChoices :
        /\ Len(requests) < MaxRecorded
        /\ requests' = Pushed(requests, req)
        /\ lastOp' = Op("recordRequest", NoRequest)
        /\ found' = NotCalled
        /\ wasMade' = NotAsked
    /\ wasMade' = NotAsked
        /\ DropsArray
        /\ UNCHANGED <<handlers, registered>>
        /\ UNCHANGED outsideRegistry

ReturnsTheLogItself == TRUE

(* getRequests returns [...this.requests], a new array *)
GetRequestsAliases == FALSE

GetRequests ==
    /\ gotArray' = requests
    /\ gotAliased' = GetRequestsAliases
    /\ lastOp' = Op("getRequests", NoRequest)
    /\ found' = NotCalled
    /\ wasMade' = NotAsked
    /\ UNCHANGED <<handlers, requests, registered>>
    /\ UNCHANGED outsideRegistry

SameMethodExactly(req, m) == req.method = m

(* req.method.toUpperCase() === method.toUpperCase() *)
SameMethod(req, m) == ToUpperCase(req.method) = ToUpperCase(m)

(* getRequestsByMethod(method): filter gives a new array *)
GetRequestsByMethod ==
    \E m \in {"GET", "post"} :
        /\ gotArray' = SelectSeq(requests, LAMBDA r : SameMethod(r, m))
        /\ gotAliased' = FALSE
        /\ lastOp' = Op("getRequestsByMethod", Request(m, <<>>))
        /\ found' = NotCalled
        /\ wasMade' = NotAsked
    /\ wasMade' = NotAsked
        /\ UNCHANGED <<handlers, requests, registered>>
        /\ UNCHANGED outsideRegistry

(* The caller changes the array it was just returned: pop() or
   push(request) *)
MutateReturned ==
    /\ lastOp.op \in {"getRequests", "getRequestsByMethod"}
    /\ \/ gotArray # <<>> /\ gotArray' = SubSeq(gotArray, 1, Len(gotArray) - 1)
       \/ Len(gotArray) < MaxRecorded
            /\ gotArray' = Append(gotArray, Request("PUT", <<"/", "x">>))
    /\ requests' = IF gotAliased THEN gotArray' ELSE requests
    /\ lastOp' = Op("mutateReturned", NoRequest)
    /\ found' = NotCalled
    /\ wasMade' = NotAsked
    /\ UNCHANGED <<handlers, gotAliased, registered>>
    /\ UNCHANGED outsideRegistry

PathChoices == { <<"/", "a">>, <<"/", "b">> }

SomeRequestOrRoute(log, m, path) ==
    \/ \E i \in 1..Len(log) : SameMethod(log[i], m) /\ Includes(log[i].url, path)
    \/ \E i \in 1..Len(registered) :
          SameMethod(registered[i], m) /\ PathString(registered[i].path) = path

(* this.requests.some((req) => req.method.toUpperCase() === method.toUpperCase()
   && req.url.includes(path)) *)
SomeRequest(log, m, path) ==
    \E i \in 1..Len(log) : SameMethod(log[i], m) /\ Includes(log[i].url, path)

(* wasRequestMade(method, path) *)
WasRequestMade ==
    \E m \in {"GET", "post"}, path \in PathChoices :
        /\ wasMade' = Answered(SomeRequest(requests, m, path))
        /\ lastOp' = Op("wasRequestMade", Request(m, path))
        /\ found' = NotCalled
        /\ DropsArray
        /\ UNCHANGED <<handlers, requests, registered>>
        /\ UNCHANGED outsideRegistry

ClearHandlersOnly ==
    /\ handlers' = EmptyMap
    /\ registered' = <<>>
    /\ lastOp' = ClearOp(Len(registered) + Len(requests))
    /\ found' = NotCalled
    /\ wasMade' = NotAsked
    /\ DropsArray
    /\ UNCHANGED requests
    /\ UNCHANGED outsideRegistry

(* clear(): this.handlers.clear(); this.requests = [] *)
Clear ==
    /\ handlers' = EmptyMap
    /\ requests' = <<>>
    /\ registered' = <<>>
    /\ lastOp' = ClearOp(Len(registered) + Len(requests))
    /\ found' = NotCalled
    /\ wasMade' = NotAsked
    /\ DropsArray
    /\ UNCHANGED outsideRegistry

(* new HttpMockRegistry() *)
RegistryInit ==
    /\ handlers = EmptyMap
    /\ requests = <<>>
    /\ gotArray = <<>>
    /\ gotAliased = FALSE
    /\ found = NotCalled
    /\ wasMade = NotAsked
    /\ lastOp = Op("new", NoRequest)
    /\ registered = <<>>

----------------------------------------------------------------------------
(* ApiResponseChain *)

MaxResponses == 3

MaxServed == 4

ResponseChoices == {"success", "error500"}

(* ApiMocks.notFound() *)
NotFound == "notFound"

(* A call on the chain; rewound: a reset() has taken the index back from a
   position past the first response *)
ChainOp(name, rw) == [op |-> name, rewound |-> rw]

LastOrNotFoundWraps(rs) == IF rs # <<>> THEN rs[1] ELSE NotFound

(* this.responses[this.responses.length - 1] || ApiMocks.notFound() *)
LastOrNotFound(rs) == IF rs # <<>> THEN rs[Len(rs)] ELSE NotFound

(* add(response) *)
Add ==
    \E r \in ResponseChoices :
        /\ Len(responses) < MaxResponses
        /\ responses' = Append(responses, r)
        /\ mixed' = (mixed \/ served # <<>>)
        /\ chainOp' = ChainOp("add", chainOp.rewound)
        /\ allGot' = <<>>
        /\ UNCHANGED <<index, served>>
        /\ UNCHANGED outsideChain

(* addMultiple(...responses) *)
AddMultiple ==
    \E rs \in (ResponseChoices \X ResponseChoices) \cup {<<>>} :
        /\ Len(responses) + Len(rs) <= MaxResponses
        /\ responses' = responses \o rs
        /\ mixed' = (mixed \/ (served # <<>> /\ rs # <<>>))
        /\ chainOp' = ChainOp("addMultiple", chainOp.rewound)
        /\ allGot' = <<>>
        /\ UNCHANGED <<index, served>>
        /\ UNCHANGED outsideChain

(* next() *)
NextResponse ==
    /\ Len(served) < MaxServed
    /\ IF index >= Len(responses)
         THEN /\ served' = Append(served, LastOrNotFound(responses))
              /\ index' = index
         ELSE /\ served' = Append(served, responses[index + 1])
              /\ index' = index + 1
    /\ chainOp' = ChainOp("next", chainOp.rewound)
    /\ allGot' = <<>>
    /\ UNCHANGED <<responses, mixed>>
    /\ UNCHANGED outsideChain

(* reset() *)
ResetChain ==
    /\ index' = 0
    /\ served' = <<>>
    /\ mixed' = FALSE
    /\ chainOp' = ChainOp("reset", chainOp.rewound \/ index > 0)
    /\ allGot' = <<>>
    /\ UNCHANGED responses
    /\ UNCHANGED outsideChain

(* getAll() *)
GetAll ==
    /\ allGot' = responses
    /\ chainOp' = ChainOp("getAll", chainOp.rewound)
    /\ UNCHANGED <<responses, index, served, mixed>>
    /\ UNCHANGED outsideChain

(* new ApiResponseChain() *)
ChainInit ==
    /\ responses = <<>>
    /\ index = 0
    /\ served = <<>>
    /\ mixed = FALSE
    /\ chainOp = ChainOp("new", FALSE)
    /\ allGot = <<>>

----------------------------------------------------------------------------
(* TestCleanupManager *)

MaxCleanupFns == 3

(* A cleanup function: which one it is (the n-th registered since the last
   clear), and what a call of it does: it returns a promise that resolves or
   one that rejects, or it throws before it returns one *)
CleanupBehaviours == {"resolves", "rejects", "throws"}

CleanupFn(n, does) == [id |-> n, does |-> does]

Ids(fns) == [k \in 1..Len(fns) |-> fns[k].id]

CatchRethrows == FALSE

(* catch (error) { console.error(...) }: the loop goes on *)
CatchContinues == TRUE

(* The for loop of cleanup() from i = j on, up to its next await or its end:
   a function that throws is caught at once and the loop goes on *)
RECURSIVE CleanupLoop(_, _, _, _)
CleanupLoop(fns, j, r, l) ==
    IF j < 0
      THEN [pc |-> "resolved", i |-> j, ran |-> r, logged |-> l]
    ELSE IF j + 1 > Len(fns)
      THEN (* this.cleanupFns[i] is undefined: calling it throws a TypeError *)
           IF CatchContinues THEN CleanupLoop(fns, j - 1, r, l + 1)
           ELSE [pc |-> "rejected", i |-> j, ran |-> r, logged |-> l]
    ELSE IF fns[j + 1].does = "throws"
      THEN IF CatchContinues
             THEN CleanupLoop(fns, j - 1, Append(r, fns[j + 1].id), l + 1)
             ELSE [pc |-> "rejected", i |-> j, ran |-> Append(r, fns[j + 1].id),
                   logged |-> l]
    ELSE [pc |-> "awaitFn", i |-> j, ran |-> Append(r, fns[j + 1].id), logged |-> l]

CleanupGoesOn(next) ==
    /\ cpc' = next.pc
    /\ cleanupIndex' = next.i
    /\ ran' = next.ran
    /\ logged' = next.logged

(* onCleanup(fn): also while a cleanup() is waiting for a function *)
OnCleanup ==
    \E does \in CleanupBehaviours :
        /\ Len(cleanupFns) < MaxCleanupFns
        /\ cleanupFns' = Append(cleanupFns, CleanupFn(Len(cleanupFns) + 1, does))
        /\ UNCHANGED <<cpc, cleanupIndex, ran, logged, atCall>>
        /\ UNCHANGED outsideCleanup

(* cleanup(), up to its first await or its end *)
CleanupStart ==
    /\ cpc \in {"idle", "resolved", "rejected"}
    /\ atCall' = cleanupFns
    /\ CleanupGoesOn(CleanupLoop(cleanupFns, Len(cleanupFns) - 1, <<>>, 0))
    /\ UNCHANGED cleanupFns
    /\ UNCHANGED outsideCleanup

(* await this.cleanupFns[i]() settles: the catch block when it rejects, then
   the loop from i - 1 on *)
CleanupFnSettles ==
    /\ cpc = "awaitFn"
    /\ IF cleanupFns[cleanupIndex + 1].does = "resolves"
         THEN CleanupGoesOn(CleanupLoop(cleanupFns, cleanupIndex - 1, ran, logged))
         ELSE IF CatchContinues
           THEN CleanupGoesOn(CleanupLoop(cleanupFns, cleanupIndex - 1, ran, logged + 1))
           ELSE cpc' = "rejected" /\ UNCHANGED <<cleanupIndex, ran, logged>>
    /\ UNCHANGED <<cleanupFns, atCall>>
    /\ UNCHANGED outsideCleanup

(* clear(), called while no cleanup() is under way *)
ClearCleanups ==
    /\ cpc # "awaitFn"
    /\ cleanupFns # <<>>
    /\ cleanupFns' = <<>>
    /\ UNCHANGED <<cpc, cleanupIndex, ran, logged, atCall>>
    /\ UNCHANGED outsideCleanup

(* new TestCleanupManager() *)
CleanupInit ==
    /\ cleanupFns = <<>>
    /\ cpc = "idle"
    /\ cleanupIndex = 0
    /\ ran = <<>>
    /\ logged = 0
    /\ atCall = <<>>

----------------------------------------------------------------------------
(* runTestsInParallel *)

MaxTests == 4

DefaultConcurrency == 5

ConcurrencyChoices == {None} \cup { Some(c) : c \in 0..3 }

concurrency == OrDefault(parallelOptions.concurrency, DefaultConcurrency)

(* The head of the for loop with i = j: const promise =
   Promise.resolve().then(test), which calls test in a later microtask, and
   the await of it; after the loop, the await of Promise.all(executing) *)
ParallelLoopHead(j, n) ==
    /\ loopI' = j
    /\ IF j < n
         THEN ppc' = "awaitPromise" /\ testState' = "scheduled"
         ELSE ppc' = "awaitAll" /\ testState' = "none"

(* runTestsInParallel(tests, options), up to its first await *)
ParallelStart ==
    /\ ppc = "ready"
    /\ \E n \in 0..MaxTests, c \in ConcurrencyChoices :
          /\ testCount' = n
          /\ parallelOptions' = [concurrency |-> c]
          /\ ParallelLoopHead(0, n)
    /\ UNCHANGED <<inFlight, results, executing, maxInFlight, overlapped>>
    /\ UNCHANGED outsideParallel

(* The microtask of Promise.resolve().then(test) runs: tests[i] is called *)
TestStarts ==
    /\ ppc = "awaitPromise"
    /\ testState = "scheduled"
    /\ testState' = "running"
    /\ inFlight' = inFlight \cup {loopI}
    /\ overlapped' = (overlapped \/ inFlight # {})
    /\ maxInFlight' = IF Cardinality(inFlight') > maxInFlight
                         THEN Cardinality(inFlight') ELSE maxInFlight
    /\ UNCHANGED <<parallelOptions, testCount, ppc, loopI, results, executing>>
    /\ UNCHANGED outsideParallel

(* executing.push(promise), then i++ and the next loop head *)
PushAndGoOn(ex) ==
    /\ executing' = Append(ex, loopI)
    /\ ParallelLoopHead(loopI + 1, testCount)

(* results[i] = await promise, the test resolving: then the test of
   executing.length >= concurrency *)
TestResolves ==
    /\ ppc = "awaitPromise"
    /\ testState = "running"
    /\ inFlight' = inFlight \ {loopI}
    /\ results' = Append(results, loopI)
    /\ IF Len(executing) >= concurrency
         THEN /\ ppc' = "awaitRace"
              /\ testState' = "none"
              /\ UNCHANGED <<loopI, executing>>
         ELSE PushAndGoOn(executing)
    /\ UNCHANGED <<parallelOptions, testCount, maxInFlight, overlapped>>
    /\ UNCHANGED outsideParallel

(* results[i] = await promise, the test rejecting: the call rejects *)
TestRejects ==
    /\ ppc = "awaitPromise"
    /\ testState = "running"
    /\ inFlight' = inFlight \ {loopI}
    /\ ppc' = "rejected"
    /\ testState' = "none"
    /\ UNCHANGED <<parallelOptions, testCount, loopI, results, executing,
                   maxInFlight, overlapped>>
    /\ UNCHANGED outsideParallel

(* executing.splice(executing.findIndex((p) => p === promise), 1): promise is
   not in executing yet, findIndex gives -1 and splice(-1, 1) removes the
   last element *)
SpliceNotFound(ex) == SubSeq(ex, 1, Len(ex) - 1)

(* await Promise.race(executing) settles: it does when executing holds a
   promise, all of which have resolved; the race of no promise never does *)
RaceSettles ==
    /\ ppc = "awaitRace"
    /\ executing # <<>>
    /\ PushAndGoOn(SpliceNotFound(executing))
    /\ UNCHANGED <<parallelOptions, testCount, inFlight, results, maxInFlight,
                   overlapped>>
    /\ UNCHANGED outsideParallel

(* await Promise.all(executing) settles: return results *)
AllSettle ==
    /\ ppc = "awaitAll"
    /\ ppc' = "resolved"
    /\ UNCHANGED <<parallelOptions, testCount, loopI, testState, inFlight, results,
                   executing, maxInFlight, overlapped>>
    /\ UNCHANGED outsideParallel

ParallelInit ==
    /\ parallelOptions = [concurrency |-> None]
    /\ testCount = 0
    /\ ppc = "ready"
    /\ loopI = 0
    /\ testState = "none"
    /\ inFlight = {}
    /\ results = <<>>
    /\ executing = <<>>
    /\ maxInFlight = 0
    /\ overlapped = FALSE

----------------------------------------------------------------------------
(* createFactory *)

MaxFactoryCalls == 3

(* Two factories, each made by its own call of createFactory *)
FactoryNames == {"productFactory", "userFactory"}

Fields == {"id", "name"}

(* The default factory of the tests: every field is made from the seed *)
DefaultFactory(sd) == [k \in Fields |-> <<k, "_", sd>>]

(* An object with some of the fields, or no overrides at all *)
OverridesChoices ==
    { [k \in ks |-> <<"custom">>] : ks \in SUBSET Fields }

SpreadDataLast(data, overrides) ==
    [k \in DOMAIN data \cup DOMAIN overrides |->
        IF k \in DOMAIN data THEN data[k] ELSE overrides[k]]

(* { ...data, ...overrides } *)
Spread(data, overrides) ==
    [k \in DOMAIN data \cup DOMAIN overrides |->
        IF k \in DOMAIN overrides THEN overrides[k] ELSE data[k]]

SeedKept(sd) == sd

(* seed++ *)
SeedAfter(sd) == sd + 1

NoCall == [factory |-> "", overrides |-> <<>>, threw |-> FALSE, result |-> <<>>]

(* factory(overrides): defaultFactory(seed++) returns or throws, then the
   spread *)
CallFactory ==
    \E f \in FactoryNames, overrides \in OverridesChoices, throws \in BOOLEAN :
        /\ Len(passed[f]) < MaxFactoryCalls
        /\ passed' = [passed EXCEPT ![f] = Append(@, seed[f])]
        /\ seed' = [seed EXCEPT ![f] = SeedAfter(@)]
        /\ lastCall' = [factory |-> f, overrides |-> overrides, threw |-> throws,
                        result |-> IF throws THEN <<>>
                                   ELSE Spread(DefaultFactory(seed[f]), overrides)]
        /\ UNCHANGED outsideFactory

(* let seed = 1, in each call of createFactory *)
FactoryInit ==
    /\ seed = [f \in FactoryNames |-> 1]
    /\ passed = [f \in FactoryNames |-> <<>>]
    /\ lastCall = NoCall

----------------------------------------------------------------------------
(* HttpMockServer: the calls that change it. One handleRequest is under way
   at a time; while it waits for its interceptor's handle, other calls may
   come. *)

MaxInterceptors == 2

MaxHandled == 2

Methods == {"GET", "POST"}

HttpResponse(status, data) == [status |-> status, data |-> data]

(* The fallbackResponse the class starts with *)
DefaultFallback == HttpResponse(404, "No mock configured")

FallbackChoices == { HttpResponse(503, "maintenance") }

(* An interceptor: the n-th added since the last clear; match(request) is
   true for the methods it accepts; handle(request) gives a promise of its
   own response, which resolves or rejects *)
Interceptor(n, accepts) == [id |-> n, accepts |-> accepts]

InterceptorChoices(n) ==
    { Interceptor(n, accepts) : accepts \in {{}, {"GET"}, Methods} }

ResponseOf(interceptor) == HttpResponse(200, ToString(interceptor.id))

LastAccepting(list, req) ==
    LET S == { k \in 1..Len(list) : req \in list[k].accepts }
    IN IF S = {} THEN 0 ELSE CHOOSE k \in S : \A j \in S : j <= k

(* for (const interceptor of this.interceptors) if (interceptor.match(request)):
   the position of the interceptor the loop stops at, 0 when it ends without
   one *)
FirstAccepting(list, req) ==
    LET S == { k \in 1..Len(list) : req \in list[k].accepts }
    IN IF S = {} THEN 0 ELSE CHOOSE k \in S : \A j \in S : k <= j

NotHandled == [req |-> "", matchCalls |-> <<>>, handleCalls |-> <<>>]

NoAnswer == [kind |-> "none", response |-> HttpResponse(0, "")]

AnswerPending == [kind |-> "pending", response |-> HttpResponse(0, "")]

AnswerResolved(response) == [kind |-> "resolved", response |-> response]

AnswerRejected == [kind |-> "rejected", response |-> HttpResponse(0, "")]

(* addInterceptor(interceptor) *)
AddInterceptor ==
    /\ Len(interceptors) < MaxInterceptors
    /\ \E ic \in InterceptorChoices(Len(interceptors) + 1) :
          interceptors' = Append(interceptors, ic)
    /\ serverOp' = "addInterceptor"
    /\ UNCHANGED <<serverRequests, fallbackResponse, spc, handled, answer, waitingFor>>
    /\ UNCHANGED outsideServer

(* clearInterceptors() *)
ClearInterceptors ==
    /\ interceptors # <<>>
    /\ interceptors' = <<>>
    /\ serverOp' = "clearInterceptors"
    /\ UNCHANGED <<serverRequests, fallbackResponse, spc, handled, answer, waitingFor>>
    /\ UNCHANGED outsideServer

(* setFallback(response) *)
SetFallback ==
    /\ \E response \in FallbackChoices : fallbackResponse' = response
    /\ serverOp' = "setFallback"
    /\ UNCHANGED <<interceptors, serverRequests, spc, handled, answer, waitingFor>>
    /\ UNCHANGED outsideServer

(* handleRequest(request), up to its await or its return: the push, the loop
   over the interceptors, and either the call of handle or the return of the
   fallback response *)
HandleRequest ==
    /\ spc # "awaitHandle"
    /\ Len(serverRequests) < MaxHandled
    /\ \E req \in Methods :
          LET hit == FirstAccepting(interceptors, req)
              tested == IF hit = 0 THEN Len(interceptors) ELSE hit
          IN /\ serverRequests' = Append(serverRequests, req)
             /\ handled' = [req |-> req,
                            matchCalls |-> [k \in 1..tested |-> interceptors[k].id],
                            handleCalls |-> IF hit = 0 THEN <<>>
                                            ELSE <<interceptors[hit].id>>]
             /\ IF hit = 0
                  THEN spc' = "returned" /\ answer' = AnswerResolved(fallbackResponse)
                  ELSE spc' = "awaitHandle" /\ answer' = AnswerPending
             /\ waitingFor' = IF hit = 0 THEN waitingFor ELSE interceptors[hit]
    /\ serverOp' = "handleRequest"
    /\ UNCHANGED <<interceptors, fallbackResponse>>
    /\ UNCHANGED outsideServer

(* return await interceptor.handle(request): the promise settles *)
HandleSettles ==
    /\ spc = "awaitHandle"
    /\ spc' = "returned"
    /\ \/ answer' = AnswerResolved(ResponseOf(waitingFor))
       \/ answer' = AnswerRejected
    /\ serverOp' = "handleSettles"
    /\ UNCHANGED <<interceptors, serverRequests, fallbackResponse, handled, waitingFor>>
    /\ UNCHANGED outsideServer

(* clearRequests() *)
ClearRequests ==
    /\ serverRequests # <<>>
    /\ serverRequests' = <<>>
    /\ serverOp' = "clearRequests"
    /\ UNCHANGED <<interceptors, fallbackResponse, spc, handled, answer, waitingFor>>
    /\ UNCHANGED outsideServer

(* clear(): this.interceptors = []; this.requests = [] *)
ClearServer ==
    /\ interceptors # <<>> \/ serverRequests # <<>>
    /\ interceptors' = <<>>
    /\ serverRequests' = <<>>
    /\ serverOp' = "clear"
    /\ UNCHANGED <<fallbackResponse, spc, handled, answer, waitingFor>>
    /\ UNCHANGED outsideServer

(* new HttpMockServer() *)
ServerInit ==
    /\ interceptors = <<>>
    /\ serverRequests = <<>>
    /\ fallbackResponse = DefaultFallback
    /\ spc = "idle"
    /\ handled = NotHandled
    /\ answer = NoAnswer
    /\ waitingFor = Interceptor(0, {})
    /\ serverOp = "new"

----------------------------------------------------------------------------
(* withFixture *)

MaxFixtureRuns == 3

DataChoices == {"user1", "user2", "user3"}

SetupErrors == {"setupError"}

TestErrors == {"assertionError", "typeError"}

TeardownErrors == {"teardownError"}

NoError == ""

FixtureEv(name, arg) == [ev |-> name, arg |-> arg]

(* finally { await fixture.teardown(data) }, up to its await: teardown is
   called with data; what the try block threw waits for it *)
FinallyBlock(events, thrown) ==
    /\ fixtureEvents' = Append(events, FixtureEv("teardown", fixtureData'))
    /\ pendingError' = thrown
    /\ fpc' = "awaitTeardown"

FinallyKeepsTestError(thrown, teardownError) ==
    IF thrown # NoError THEN thrown ELSE teardownError

(* What leaves the finally block when teardown has failed: its error, in the
   place of what the try block threw *)
FinallyThrows(thrown, teardownError) == teardownError

(* withFixture(fixture, testFn), up to its first await: fixture.setup() is
   called *)
FixtureStart ==
    /\ fpc \in {"ready", "resolved", "rejected"}
    /\ fixtureRuns < MaxFixtureRuns
    /\ fixtureRuns' = fixtureRuns + 1
    /\ fixtureEvents' = <<FixtureEv("setup", "")>>
    /\ fpc' = "awaitSetup"
    /\ fixtureData' = ""
    /\ pendingError' = NoError
    /\ fixtureRaised' = NoError
    /\ UNCHANGED outsideFixture

(* await fixture.setup() rejects: withFixture rejects with its error *)
SetupRejects ==
    /\ fpc = "awaitSetup"
    /\ \E e \in SetupErrors : fixtureRaised' = e
    /\ fpc' = "rejected"
    /\ UNCHANGED <<fixtureData, pendingError, fixtureEvents, fixtureRuns>>
    /\ UNCHANGED outsideFixture

(* await fixture.setup() resolves: testFn(data) is called; it returns a value
   or a promise, which is awaited, or it throws, which enters the finally
   block at once *)
SetupResolves ==
    /\ fpc = "awaitSetup"
    /\ \E d \in DataChoices :
          /\ fixtureData' = d
          /\ \/ /\ fixtureEvents' = fixtureEvents \o <<FixtureEv("setup resolved", d),
                                                        FixtureEv("testFn", d)>>
                /\ fpc' = "awaitTest"
                /\ pendingError' = NoError
             \/ \E e \in TestErrors :
                   FinallyBlock(fixtureEvents \o <<FixtureEv("setup resolved", d),
                                                   FixtureEv("testFn", d),
                                                   FixtureEv("testFn threw", e)>>, e)
    /\ UNCHANGED <<fixtureRaised, fixtureRuns>>
    /\ UNCHANGED outsideFixture

(* await testFn(data) settles: the finally block *)
TestFnSettles ==
    /\ fpc = "awaitTest"
    /\ fixtureData' = fixtureData
    /\ \/ FinallyBlock(Append(fixtureEvents, FixtureEv("testFn resolved", "")), NoError)
       \/ \E e \in TestErrors :
             FinallyBlock(Append(fixtureEvents, FixtureEv("testFn rejected", e)), e)
    /\ UNCHANGED <<fixtureRaised, fixtureRuns>>
    /\ UNCHANGED outsideFixture

(* await fixture.teardown(data) settles: the end of the finally block *)
TeardownSettles ==
    /\ fpc = "awaitTeardown"
    /\ \/ /\ fixtureRaised' = pendingError
          /\ fpc' = IF pendingError # NoError THEN "rejected" ELSE "resolved"
          /\ fixtureEvents' = Append(fixtureEvents, FixtureEv("teardown resolved", ""))
       \/ \E e \in TeardownErrors :
             /\ fixtureRaised' = FinallyThrows(pendingError, e)
             /\ fpc' = "rejected"
             /\ fixtureEvents' = Append(fixtureEvents, FixtureEv("teardown rejected", e))
    /\ UNCHANGED <<fixtureData, pendingError, fixtureRuns>>
    /\ UNCHANGED outsideFixture

FixtureInit ==
    /\ fpc = "ready"
    /\ fixtureData = ""
    /\ pendingError = NoError
    /\ fixtureRaised = NoError
    /\ fixtureEvents = <<>>
    /\ fixtureRuns = 0

----------------------------------------------------------------------------
(* TestDatabase *)

UrlChoices == {"", "postgres://localhost/test"}

(* The tables of the data passed to seed *)
SeedChoices == {{}, {"users"}, {"users", "posts"}}

NotConnected == "Database not connected"

UrlRequired == "Database URL is required"

Ok == "ok"

DbResult(op, outcome) == [op |-> op, outcome |-> outcome]

ConnectionNotChecked(isConnected) == Ok

(* if (!this.connected) throw new Error('Database not connected') *)
ConnectionChecked(isConnected) == IF ~isConnected THEN NotConnected ELSE Ok

(* createTestDatabase(config): new TestDatabase(config) *)
CreateTestDatabase ==
    /\ dbResult.op = "none"
    /\ \E url \in UrlChoices : dbUrl' = url
    /\ dbResult' = DbResult("new", Ok)
    /\ UNCHANGED <<connected, seedData, tpc, lastConnection>>
    /\ UNCHANGED outsideDatabase

(* connect() *)
Connect ==
    /\ dbResult.op # "none"
    /\ IF connected
         THEN /\ dbResult' = DbResult("connect", Ok)
              /\ lastConnection' = "connected"
              /\ UNCHANGED connected
         ELSE IF dbUrl = ""
           THEN /\ dbResult' = DbResult("connect", UrlRequired)
                /\ UNCHANGED <<connected, lastConnection>>
           ELSE /\ connected' = TRUE
                /\ dbResult' = DbResult("connect", Ok)
                /\ lastConnection' = "connected"
    /\ UNCHANGED <<dbUrl, seedData, tpc>>
    /\ UNCHANGED outsideDatabase

(* disconnect() *)
Disconnect ==
    /\ dbResult.op # "none"
    /\ connected' = FALSE
    /\ dbResult' = DbResult("disconnect", Ok)
    /\ lastConnection' = "disconnected"
    /\ UNCHANGED <<dbUrl, seedData, tpc>>
    /\ UNCHANGED outsideDatabase

(* query(sql, params), execute(sql, params) and clear(tables): the check of
   the connection, and nothing that changes the database object *)
QueryExecuteClear ==
    /\ dbResult.op # "none"
    /\ \E op \in {"query", "execute", "clear"} :
          dbResult' = DbResult(op, ConnectionChecked(connected))
    /\ UNCHANGED <<dbUrl, connected, seedData, tpc, lastConnection>>
    /\ UNCHANGED outsideDatabase

(* seed(data) *)
Seed ==
    /\ dbResult.op # "none"
    /\ \E data \in SeedChoices :
          /\ dbResult' = DbResult("seed", ConnectionChecked(connected))
          /\ seedData' = IF dbResult'.outcome = Ok THEN data ELSE seedData
    /\ UNCHANGED <<dbUrl, connected, tpc, lastConnection>>
    /\ UNCHANGED outsideDatabase

(* transaction(fn), up to its await: the check of the connection, then the
   call of fn(this) *)
Transaction ==
    /\ dbResult.op # "none"
    /\ tpc = "idle"
    /\ dbResult' = DbResult("transaction", ConnectionChecked(connected))
    /\ tpc' = IF dbResult'.outcome = Ok THEN "awaitFn" ELSE "idle"
    /\ UNCHANGED <<dbUrl, connected, seedData, lastConnection>>
    /\ UNCHANGED outsideDatabase

(* await fn(this) settles: transaction returns its result or rethrows its
   error *)
TransactionSettles ==
    /\ tpc = "awaitFn"
    /\ tpc' = "idle"
    /\ \E outcome \in {Ok, "fn failed"} : dbResult' = DbResult("transaction settled", outcome)
    /\ UNCHANGED <<dbUrl, connected, seedData, lastConnection>>
    /\ UNCHANGED outsideDatabase

(* getConnectionStatus(): { connected, url } *)
GetConnectionStatus ==
    /\ dbResult.op # "none"
    /\ dbResult' = DbResult("getConnectionStatus",
                            IF connected THEN "connected" ELSE "disconnected")
    /\ UNCHANGED <<dbUrl, connected, seedData, tpc, lastConnection>>
    /\ UNCHANGED outsideDatabase

(* Before createTestDatabase *)
DatabaseInit ==
    /\ dbUrl = ""
    /\ connected = FALSE
    /\ seedData = {}
    /\ tpc = "idle"
    /\ dbResult = DbResult("none", Ok)
    /\ lastConnection = "none"

----------------------------------------------------------------------------
(* Specifications: one call of retry, one call of waitUntil, the calls made
   on one HttpMockRegistry *)

(* Every other object as it is constructed *)
FreshObjects ==
    /\ RegistryInit
    /\ ChainInit
    /\ CleanupInit
    /\ ParallelInit
    /\ FactoryInit
    /\ ServerInit
    /\ FixtureInit
    /\ DatabaseInit

RetryCallInit == RetryInit /\ WaitIdle /\ FreshObjects

RetryNext ==
    \/ RetryStart
    \/ RetryFnResolves
    \/ RetryFnRejects
    \/ RetryTimerFires

SpecRetry == RetryCallInit /\ [][RetryNext]_vars

WaitCallInit == WaitInit /\ RetryIdle /\ FreshObjects

WaitNext ==
    \/ WaitStart
    \/ WaitConditionSettles
    \/ WaitTimerFires

SpecWait == WaitCallInit /\ [][WaitNext]_vars

(* One call of retry or one call of waitUntil, in which every invocation of
   fn / condition settles and every timer that was set fires *)
AsyncCallInit ==
    \/ RetryInit /\ WaitIdle /\ FreshObjects
    \/ WaitInit /\ RetryIdle /\ FreshObjects

AsyncNext ==
    \/ WaitIdle /\ RetryNext
    \/ RetryIdle /\ WaitNext

InvocationsSettle ==
    /\ WF_vars(RetryFnResolves \/ RetryFnRejects)
    /\ WF_vars(WaitConditionSettles)

TimersFire == WF_vars(RetryTimerFires) /\ WF_vars(WaitTimerFires)

SpecAsyncFair == AsyncCallInit /\ [][AsyncNext]_vars /\ InvocationsSettle /\ TimersFire

RegistryCallsInit == RetryIdle /\ WaitIdle /\ FreshObjects

RegistryNext ==
    \/ Register
    \/ MockGet
    \/ MockPost
    \/ GetHandler
    \/ RecordRequest
    \/ GetRequests
    \/ GetRequestsByMethod
    \/ MutateReturned
    \/ WasRequestMade
    \/ Clear

SpecRegistry == RegistryCallsInit /\ [][RegistryNext]_vars

ChainCallsInit == RetryIdle /\ WaitIdle /\ FreshObjects

ResponseChainNext ==
    \/ Add
    \/ AddMultiple
    \/ NextResponse
    \/ ResetChain
    \/ GetAll

SpecResponseChain == ChainCallsInit /\ [][ResponseChainNext]_vars

CleanupCallsInit == RetryIdle /\ WaitIdle /\ FreshObjects

CleanupNext ==
    \/ OnCleanup
    \/ CleanupStart
    \/ CleanupFnSettles
    \/ ClearCleanups

SpecCleanup == CleanupCallsInit /\ [][CleanupNext]_vars

ParallelCallInit == RetryIdle /\ WaitIdle /\ FreshObjects

ParallelNext ==
    \/ ParallelStart
    \/ TestStarts
    \/ TestResolves
    \/ TestRejects
    \/ RaceSettles
    \/ AllSettle

SpecParallel == ParallelCallInit /\ [][ParallelNext]_vars

FactoryCallsInit == RetryIdle /\ WaitIdle /\ FreshObjects

FactoryNext == CallFactory

SpecFactory == FactoryCallsInit /\ [][FactoryNext]_vars

ServerCallsInit == RetryIdle /\ WaitIdle /\ FreshObjects

ServerNext ==
    \/ AddInterceptor
    \/ ClearInterceptors
    \/ SetFallback
    \/ HandleRequest
    \/ HandleSettles
    \/ ClearRequests
    \/ ClearServer

SpecServer == ServerCallsInit /\ [][ServerNext]_vars

FixtureCallsInit == RetryIdle /\ WaitIdle /\ FreshObjects

FixtureNext ==
    \/ FixtureStart
    \/ SetupRejects
    \/ SetupResolves
    \/ TestFnSettles
    \/ TeardownSettles

SpecFixture == FixtureCallsInit /\ [][FixtureNext]_vars

DatabaseCallsInit == RetryIdle /\ WaitIdle /\ FreshObjects

DatabaseNext ==
    \/ CreateTestDatabase
    \/ Connect
    \/ Disconnect
    \/ QueryExecuteClear
    \/ Seed
    \/ Transaction
    \/ TransactionSettles
    \/ GetConnectionStatus

SpecDatabase == DatabaseCallsInit /\ [][DatabaseNext]_vars

----------------------------------------------------------------------------
(* Properties of retry *)

RetryGivesOnRetry == retryOptions.onRetry

OnRetryAttempts == [i \in 1..Len(onRetryCalls) |-> onRetryCalls[i].attempt]

UpTo(n) == [i \in 1..n |-> i]

(* The invocations made so far are those of an operation that fails on its
   first n-1 invocations and succeeds on its n-th *)
FailsThenSucceeds(n) ==
    \A i \in 1..Len(calls) : (i < n => ~calls[i].ok) /\ (i = n => calls[i].ok)

(* The invocations made so far are those of an operation that always fails *)
AlwaysFails == \A i \in 1..Len(calls) : ~calls[i].ok

(* C1: with maxAttempts = n >= 1, retry of an operation that fails on its
   first n-1 invocations and succeeds on the n-th never raises, never invokes
   it more than n times, and returns the value of the n-th invocation after
   exactly n-1 onRetry calls, with attempt indices 1, 2, ..., n-1 in order. *)
C1_SucceedsOnLastAttempt ==
    (maxAttempts >= 1 /\ FailsThenSucceeds(maxAttempts)) =>
        /\ rpc # "thrown"
        /\ Len(calls) <= maxAttempts
        /\ rpc = "returned" =>
            /\ Len(calls) = maxAttempts
            /\ returned = calls[maxAttempts].value
            /\ RetryGivesOnRetry => OnRetryAttempts = UpTo(maxAttempts - 1)

C1_Witness ==
    /\ rpc = "returned"
    /\ maxAttempts = 3
    /\ Len(calls) = 3
    /\ returned = "v2"
    /\ OnRetryAttempts = <<1, 2>>

(* C2: with maxAttempts >= 1, retry of an operation that fails on every
   invocation never makes a (maxAttempts + 1)-th invocation, never returns,
   and raises only after exactly maxAttempts invocations. *)
C2_ExactlyMaxAttemptsInvocations ==
    (maxAttempts >= 1 /\ AlwaysFails) =>
        /\ Len(calls) <= maxAttempts
        /\ rpc # "returned"
        /\ rpc = "thrown" => Len(calls) = maxAttempts
        /\ (rpc = "awaitFn" /\ attempt > Len(calls)) => attempt <= maxAttempts

C2_Witness ==
    /\ rpc = "thrown"
    /\ maxAttempts = 3
    /\ AlwaysFails
    /\ Len(calls) = 3

(* C3: when all maxAttempts >= 1 attempts fail, the error raised is the one
   of the last attempt (the thrown Error itself, or an Error made of the
   thrown value's string), not that of an earlier attempt and not the
   'Max retry attempts reached' error. *)
C3_RaisesLastError ==
    (rpc = "thrown" /\ maxAttempts >= 1) =>
        /\ Len(calls) = maxAttempts
        /\ raised.kind = "Error"
        /\ raised.message = calls[maxAttempts].thrown.message
        /\ calls[maxAttempts].thrown.kind = "Error" => raised = calls[maxAttempts].thrown
        /\ raised # MaxAttemptsError

C3_Witness ==
    /\ rpc = "thrown"
    /\ maxAttempts = 3
    /\ calls[1].thrown.message = "E1"
    /\ calls[2].thrown.message = "s"
    /\ calls[3].thrown.message = "E2"
    /\ raised = [kind |-> "Error", message |-> "E2"]

(* C4: for an always-failing operation with maxAttempts = n, onRetry is
   called once per failed attempt that is retried: the i-th call has attempt
   index i, the index n is never passed, and when retry raises the calls were
   exactly 1..n-1. *)
C4_OnRetryIndices ==
    (AlwaysFails /\ RetryGivesOnRetry) =>
        /\ \A i \in 1..Len(onRetryCalls) :
              onRetryCalls[i].attempt = i /\ onRetryCalls[i].attempt < maxAttempts
        /\ (rpc = "thrown" /\ maxAttempts >= 1) => OnRetryAttempts = UpTo(maxAttempts - 1)
        /\ rpc = "awaitTimer" => Len(onRetryCalls) = Len(calls)

C4_Witness ==
    /\ rpc = "thrown"
    /\ maxAttempts = 3
    /\ AlwaysFails
    /\ OnRetryAttempts = <<1, 2>>

(* C5: when the operation first succeeds on its k-th invocation, that is the
   last invocation: retry has returned its value, and after the k-1 delays and
   onRetry calls of the failed attempts nothing follows the success but the
   return. *)
C5_ReturnsRightAfterSuccess ==
    \A k \in 1..Len(calls) :
        calls[k].ok =>
            /\ k = Len(calls)
            /\ k <= maxAttempts
            /\ rpc = "returned"
            /\ returned = calls[k].value
            /\ Len(delays) = k - 1
            /\ Len(onRetryCalls) = (IF RetryGivesOnRetry THEN k - 1 ELSE 0)
            /\ Len(SelectSeq(trace, LAMBDA e : e.ev = "invoke")) = k
            /\ SubSeq(trace, Len(trace) - 1, Len(trace)) = <<Ev("resolve", k), Ev("return", k)>>

C5_Witness ==
    /\ rpc = "returned"
    /\ Len(calls) = 3
    /\ maxAttempts = 4
    /\ RetryGivesOnRetry
    /\ Len(delays) = 2

(* C6: attempt 1 runs with no delay before it, the delay after the failed
   attempt 1 is delayMs and each later delay is the one before it times
   backoffMultiplier, so that the delay after attempt a is
   delayMs * backoffMultiplier^(a-1); 100, 200, ... by default. *)
C6_BackoffDelays ==
    /\ trace # <<>> => trace[1] \in {Ev("invoke", 1), Ev("throw", 1)}
    /\ Len(delays) >= 1 => delays[1] = delayMs
    /\ \A a \in 2..Len(delays) : delays[a] = delays[a - 1] * backoffMultiplier
    /\ \A a \in 1..Len(delays) : delays[a] = delayMs * Pow(backoffMultiplier, a - 1)
    /\ rpc = "awaitTimer" => (Len(delays) = attempt /\ delay = delays[attempt])
    /\ (retryOptions.delayMs = None /\ retryOptions.backoffMultiplier = None) =>
          \A a \in 1..Len(delays) : delays[a] = 100 * Pow(2, a - 1)

C6_Witness ==
    /\ delays = <<10, 30, 90>>
    /\ retryOptions.backoffMultiplier = Some(3)
    /\ rpc = "awaitFn"
    /\ attempt = 4

(* C7: for every failed attempt a < maxAttempts the order is: attempt a
   fails, onRetry(a, error) is called with the error of that attempt, the
   timer is set, it fires, attempt a+1 starts; onRetry is never called once
   the delay has started or attempt a+1 has begun. *)
C7_OnRetryBeforeDelay ==
    /\ \A i \in 1..Len(trace) :
        LET e == trace[i] IN
        /\ (e.ev = "reject" /\ e.attempt < maxAttempts) =>
              /\ i < Len(trace)
              /\ trace[i + 1] =
                    (IF RetryGivesOnRetry THEN Ev("onRetry", e.attempt)
                     ELSE Ev("setTimeout", e.attempt))
        /\ e.ev = "onRetry" =>
              /\ i > 1 /\ trace[i - 1] = Ev("reject", e.attempt)
              /\ i < Len(trace) /\ trace[i + 1] = Ev("setTimeout", e.attempt)
        /\ e.ev = "setTimeout" =>
              /\ i > 1
              /\ trace[i - 1].ev \in {"onRetry", "reject"}
              /\ i < Len(trace) => trace[i + 1] = Ev("timer", e.attempt)
        /\ e.ev = "timer" =>
              /\ i < Len(trace) /\ trace[i + 1] = Ev("invoke", e.attempt + 1)
    /\ \A i \in 1..Len(onRetryCalls) :
        /\ onRetryCalls[i].attempt <= Len(calls)
        /\ onRetryCalls[i].error.message = calls[onRetryCalls[i].attempt].thrown.message
        /\ onRetryCalls[i].error.kind = "Error"

C7_Witness ==
    /\ Len(trace) >= 6
    /\ SubSeq(trace, 1, 6) = <<Ev("invoke", 1), Ev("reject", 1), Ev("onRetry", 1),
                               Ev("setTimeout", 1), Ev("timer", 1), Ev("invoke", 2)>>

----------------------------------------------------------------------------
(* Properties of waitUntil *)

WaitElapsed == now - startTime

DefaultWaitOptions == [timeoutMs |-> None, pollIntervalMs |-> None, message |-> None]

(* C8: waitUntil(() => true, {}), the policy being the default one, returns
   after a single evaluation of the predicate and without setting a timer. *)
C8_TrueReturnsWithoutSleeping ==
    (waitOptions = DefaultWaitOptions /\ wpc # "ready") =>
        /\ evaluations >= 1
        /\ firstOutcome = "true" =>
              /\ wpc = "returned"
              /\ evaluations = 1
              /\ sleeps = 0
              /\ waitRaised = <<>>

C8_Witness ==
    /\ waitOptions = DefaultWaitOptions
    /\ firstOutcome = "true"
    /\ wpc = "returned"
    /\ evaluations = 1
    /\ sleeps = 0

(* C9: for every policy, timeout = 0 included, waitUntil evaluates the
   predicate before it can fail: it is evaluated once it has started, a
   predicate true on its first evaluation makes it return, and no timeout
   error is raised without an evaluation. *)
C9_EvaluatesBeforeFailing ==
    /\ wpc # "ready" => evaluations >= 1
    /\ firstOutcome = "true" => wpc = "returned"
    /\ wpc = "thrown" => evaluations >= 1

(* C10: waitUntil with a predicate that is false on every evaluation does
   not return; it fails with a message that carries the configured timeout,
   no earlier than elapsed time >= timeout and, the evaluations taking no
   time, no later than one poll interval after the timeout. *)
C10_TimesOutWithinOneInterval ==
    (seen \subseteq {"false"}) =>
        /\ wpc # "returned"
        /\ wpc = "thrown" =>
              /\ waitRaised = <<message, " (timeout: ", ToString(timeoutMs), "ms)">>
              /\ WaitElapsed >= timeoutMs
              /\ ~slow => WaitElapsed <= timeoutMs + pollIntervalMs
        /\ wpc # "thrown" => waitRaised = <<>>
        /\ (wpc = "awaitCondition" /\ ~slow) => WaitElapsed < timeoutMs

C10_Witness ==
    /\ wpc = "thrown"
    /\ seen = {"false"}
    /\ ~slow
    /\ timeoutMs = 50
    /\ pollIntervalMs = 10
    /\ evaluations = 5
    /\ WaitElapsed = 50
    /\ startTime = 1000
    /\ waitRaised = <<"Timeout waiting for condition", " (timeout: ", "50", "ms)">>

(* C11: a predicate evaluation that throws is treated like a false one: the
   call never ends with the predicate's exception (the only error is the
   timeout error, raised once the timeout has elapsed), one timer of the poll
   interval is set after the evaluation and the predicate is polled again,
   and the call returns when a later evaluation gives true. *)
C11_ThrowingPredicateKeepsPolling ==
    ("throws" \in seen) =>
        /\ wpc = "thrown" =>
              /\ waitRaised = <<message, " (timeout: ", ToString(timeoutMs), "ms)">>
              /\ WaitElapsed >= timeoutMs
        /\ wpc # "thrown" => waitRaised = <<>>
        /\ wpc \in {"awaitTimer", "thrown"} => sleeps = evaluations
        /\ wpc \in {"awaitCondition", "returned"} => sleeps = evaluations - 1
        /\ Len(timers) = sleeps
        /\ wpc = "returned" <=> "true" \in seen

C11_Witness ==
    /\ wpc = "returned"
    /\ seen = {"throws", "true"}
    /\ firstOutcome = "throws"
    /\ evaluations = 3
    /\ sleeps = 2

(* C12: when the predicate first gives true on its k-th evaluation, before
   the timeout, it has been evaluated exactly k times: waitUntil has returned,
   no evaluation follows, and k-1 timers, each of the poll interval, were set,
   one after each of the evaluations before. *)
C12_ExactlyKEvaluations ==
    /\ "true" \in seen =>
          /\ wpc = "returned"
          /\ sleeps = evaluations - 1
          /\ firstOutcome = "true" <=> evaluations = 1
    /\ timers = [i \in 1..sleeps |-> pollIntervalMs]
    /\ wpc \in {"awaitCondition", "returned"} => Len(timers) = evaluations - 1
    /\ (wpc \in {"awaitCondition", "returned"} /\ ~slow /\ pollIntervalMs >= 1) =>
          WaitElapsed = sleeps * pollIntervalMs

C12_Witness ==
    /\ wpc = "returned"
    /\ evaluations = 3
    /\ seen = {"false", "true"}
    /\ timers = <<10, 10>>
    /\ ~slow
    /\ WaitElapsed = 20
    /\ timeoutMs = 50

----------------------------------------------------------------------------
(* Properties of HttpMockRegistry *)

RegisterOps == {"register", "mockGet", "mockPost"}

IsPrefix(a, b) == Len(a) <= Len(b) /\ SubSeq(b, 1, Len(a)) = a

(* The route is registered for the request's method and its pattern matches
   the request's url: the url contains the string, or the text the RegExp
   searches for *)
RouteMatches(req, h) ==
    /\ ToUpperCase(h.method) = ToUpperCase(req.method)
    /\ Includes(req.url, h.path.text)

MatchingRoutes(req) == { i \in 1..Len(registered) : RouteMatches(req, registered[i]) }

Least(S) == CHOOSE i \in S : \A j \in S : i <= j

(* C13: after register(GET, "/a", R1), register(GET, "/a", R2), getHandler of
   a GET request for "/a" returns R1: among the routes registered for the
   request's method whose pattern matches the url, getHandler returns the
   first registered. *)
C13_FirstRegisteredWins ==
    (lastOp.op = "getHandler" /\ MatchingRoutes(lastOp.req) = {1, 2}) =>
        found = [kind |-> "handler", handler |-> registered[1]]

(* C14: after mockGet / mockPost / register of a route with method M and
   pattern P, getHandler of a request with method M and a url P matches
   returns a handler. *)
C14_RegisteredRouteIsFound ==
    \A i \in 1..Len(registered) :
        (lastOp.op = "getHandler" /\ RouteMatches(lastOp.req, registered[i])) =>
            found.kind = "handler"

(* C15: getRequestsByMethod("GET") returns exactly the recorded requests
   whose method is GET (whatever its case), each once and in the order they
   were recorded, and no request with another method. *)
C15_ByMethodIsTheOrderedSubset ==
    lastOp.op = "getRequestsByMethod" =>
        LET of == { i \in 1..Len(requests) :
                      ToUpperCase(requests[i].method) = ToUpperCase(lastOp.req.method) }
            nth(j) == CHOOSE i \in of : Cardinality({ k \in of : k <= i }) = j
        IN /\ Len(gotArray) = Cardinality(of)
           /\ \A j \in 1..Len(gotArray) : gotArray[j] = requests[nth(j)]

C15_Witness ==
    /\ lastOp.op = "getRequestsByMethod"
    /\ lastOp.req.method = "GET"
    /\ requests = <<Request("POST", <<"/", "a">>), Request("get", <<"/", "a", "*">>)>>
    /\ gotArray = <<Request("get", <<"/", "a", "*">>)>>

(* C16: the request log and the route table are independent: register /
   mockGet / mockPost leave the log as it is (empty when nothing was
   recorded), recordRequest leaves the routes as they are and appends its
   request to the log whether or not a route matches it. *)
C16_LogAndRoutesIndependent ==
    [][ /\ lastOp'.op \in RegisterOps =>
              /\ requests' = requests
              /\ Len(registered') = Len(registered) + 1
        /\ lastOp'.op = "recordRequest" =>
              /\ handlers' = handlers
              /\ registered' = registered
              /\ \E req \in RequestChoices : requests' = Append(requests, req)
        /\ (lastOp'.op = "getRequests" /\ requests = <<>>) => gotArray' = <<>>
      ]_vars

C16_Witness ==
    /\ lastOp.op = "recordRequest"
    /\ registered = <<Handler("GET", StringPath(<<"*">>), "R2")>>
    /\ requests = <<Request("POST", <<"/", "a">>)>>
    /\ MatchingRoutes(requests[1]) = {}

(* C17: clear() resets the route table and the request log in one step: right
   after it both are empty, and until the next register or recordRequest
   getHandler returns undefined for every request and getRequests() is
   empty. *)
C17_ClearResetsBoth ==
    /\ [](lastOp.op = "clear" => (DOMAIN handlers = {} /\ requests = <<>>))
    /\ [][ (DOMAIN handlers = {} /\ requests = <<>>
            /\ lastOp'.op \notin RegisterOps \cup {"recordRequest", "mutateReturned"}) =>
              /\ DOMAIN handlers' = {}
              /\ requests' = <<>>
              /\ lastOp'.op = "getHandler" => found' = Undefined
              /\ lastOp'.op \in {"getRequests", "getRequestsByMethod"} => gotArray' = <<>>
         ]_vars

C17_Witness ==
    /\ lastOp.op = "clear"
    /\ lastOp.dropped = MaxRegistered + MaxRecorded
    /\ DOMAIN handlers = {}
    /\ requests = <<>>

(* C18: the request log is append-only between clears: a call other than
   clear() leaves the log it found as a prefix of the log it leaves, and a
   change made to an array that getRequests() returned does not change the
   log. *)
C18_LogIsAppendOnly ==
    [][ /\ lastOp'.op # "clear" => IsPrefix(requests, requests')
        /\ lastOp'.op = "mutateReturned" => (requests' = requests /\ gotArray' # gotArray)
      ]_vars

C18_Witness ==
    /\ lastOp.op = "mutateReturned"
    /\ Len(requests) = 2
    /\ Len(gotArray) = 1
    /\ gotArray = SubSeq(requests, 1, 1)

(* C19: route lookup is deterministic: getHandler changes neither the route
   table nor the request log, no call but register and clear changes the
   route table, and a getHandler call that follows one with the same method
   and url returns what that one returned. *)
C19_LookupIsDeterministic ==
    [][ /\ lastOp'.op = "getHandler" =>
              /\ handlers' = handlers
              /\ requests' = requests
              /\ registered' = registered
        /\ lastOp'.op \notin RegisterOps \cup {"clear"} => handlers' = handlers
        /\ (lastOp.op = "getHandler" /\ lastOp'.op = "getHandler"
            /\ lastOp'.req = lastOp.req) => found' = found
      ]_vars

C19_Witness ==
    /\ lastOp.op = "getHandler"
    /\ found = [kind |-> "handler", handler |-> Handler("get", StringPath(<<"*">>), "R1")]
    /\ Len(registered) = 2
    /\ registered[2] = Handler("GET", RegExpPath(<<"a">>, TRUE), "R1")

(* C20: a lookup miss is not an error: getHandler of a request that no
   registered route matches, also one of a method nothing was registered for,
   returns undefined, throws nothing and leaves the registry as it is. *)
C20_MissReturnsUndefined ==
    [][ (lastOp'.op = "getHandler" /\ MatchingRoutes(lastOp'.req) = {}) =>
          /\ found' = Undefined
          /\ handlers' = handlers
          /\ requests' = requests
          /\ registered' = registered
      ]_vars

C20_Witness ==
    /\ lastOp = Op("getHandler", Request("POST", <<"/", "a">>))
    /\ found = Undefined
    /\ Len(registered) = 2
    /\ \A i \in 1..Len(registered) : ToUpperCase(registered[i].method) = "GET"

(* C21: wasRequestMade(method, path) is true exactly when the log holds a
   recorded request whose method equals `method` ignoring case and whose url
   contains `path`; a mock registered for that path, with no request
   recorded, does not make it true. *)
C21_WasRequestMadeReadsTheLog ==
    lastOp.op = "wasRequestMade" =>
        /\ wasMade.asked
        /\ wasMade.value <=>
              \E i \in 1..Len(requests) :
                  /\ ToUpperCase(requests[i].method) = ToUpperCase(lastOp.req.method)
                  /\ Includes(requests[i].url, lastOp.req.url)
        /\ requests = <<>> => ~wasMade.value

C21_Witness ==
    /\ lastOp = Op("wasRequestMade", Request("GET", <<"/", "a">>))
    /\ registered = <<Handler("GET", StringPath(<<"/", "a">>), "R1")>>
    /\ requests = <<>>
    /\ wasMade = Answered(FALSE)

C21_WitnessMade ==
    /\ lastOp = Op("wasRequestMade", Request("post", <<"/", "a">>))
    /\ requests = <<Request("POST", <<"/", "a">>)>>
    /\ wasMade = Answered(TRUE)

(* C22: register only appends: every route registered since the last clear()
   is still stored, under the key of its method and path, and the routes
   stored under one key are in the order they were registered; a register
   leaves every route stored before it where it was. *)
C22_RegisterOnlyAppends ==
    /\ DOMAIN handlers = { RegisterKey(registered[i]) : i \in 1..Len(registered) }
    /\ \A key \in DOMAIN handlers :
          handlers[key] = SelectSeq(registered, LAMBDA h : RegisterKey(h) = key)

C22_Witness ==
    /\ lastOp.op = "register"
    /\ registered = <<Handler("GET", StringPath(<<"/", "a">>), "R1"),
                      Handler("GET", StringPath(<<"/", "a">>), "R2")>>
    /\ handlers[RegisterKey(registered[1])] = registered

----------------------------------------------------------------------------
(* Termination of retry and waitUntil *)

Pending == {"awaitFn", "awaitCondition", "awaitTimer"}

Ended == {"returned", "thrown"}

(* C23: once started, a retry call and a waitUntil call run to completion:
   when every invocation of fn / condition settles and every timer fires,
   a call that is waiting eventually has returned or thrown. *)
C23_CallsRunToCompletion ==
    /\ (rpc \in Pending) ~> (rpc \in Ended)
    /\ (wpc \in Pending) ~> (wpc \in Ended)

C23_Witness ==
    /\ wpc = "thrown"
    /\ timeoutMs = DefaultTimeoutMs
    /\ pollIntervalMs = DefaultPollIntervalMs
    /\ evaluations = PollsNeeded(DefaultTimeoutMs, DefaultPollIntervalMs)
    /\ seen = {"false", "throws"}

C23_WitnessRetry ==
    /\ rpc = "thrown"
    /\ Len(calls) = MaxAttemptsBound
    /\ Len(delays) = MaxAttemptsBound - 1

----------------------------------------------------------------------------
(* Properties of ApiResponseChain *)

Min(a, b) == IF a <= b THEN a ELSE b

(* C24: next() returns the added responses one per call in the order they
   were added, and once all have been returned every further next() returns
   the last added response again: with every response added before the
   first next() since construction or reset(), the k-th call returns the
   k-th response, the last one for k beyond their number. reset() starts
   this over: the call after it returns the first response. *)
C24_NextWalksTheChain ==
    /\ (~mixed /\ responses # <<>>) =>
          \A k \in 1..Len(served) : served[k] = responses[Min(k, Len(responses))]
    /\ chainOp.op = "reset" => (served = <<>> /\ ~mixed)

C24_Witness ==
    /\ responses = <<"success", "error500", "success">>
    /\ served = <<"success", "error500", "success", "success">>
    /\ ~mixed

C24_WitnessReset ==
    /\ chainOp = ChainOp("next", TRUE)
    /\ responses = <<"success", "error500">>
    /\ served = <<"success">>
    /\ index = 1
    /\ ~mixed

----------------------------------------------------------------------------
(* Properties of TestCleanupManager *)

Reverse(q) == [k \in 1..Len(q) |-> q[Len(q) + 1 - k]]

Failing(fns) == { k \in 1..Len(fns) : fns[k].does # "resolves" }

(* C25: cleanup() runs every cleanup function registered when it is called
   exactly once, in the reverse of the registration order: a function that
   throws or rejects stops neither the functions registered before it nor
   cleanup() itself, which resolves; each failure is logged. While cleanup()
   waits, what it has run is the start of that reverse order. *)
C25_CleanupRunsAllInReverse ==
    /\ cpc # "rejected"
    /\ cpc = "resolved" =>
          /\ ran = Reverse(Ids(atCall))
          /\ logged = Cardinality(Failing(atCall))
    /\ cpc = "awaitFn" =>
          /\ Len(ran) <= Len(atCall)
          /\ ran = SubSeq(Reverse(Ids(atCall)), 1, Len(ran))

C25_Witness ==
    /\ cpc = "resolved"
    /\ Len(atCall) = 3
    /\ atCall[3].does = "rejects"
    /\ atCall[2].does = "throws"
    /\ atCall[1].does = "resolves"
    /\ ran = Reverse(Ids(atCall))
    /\ logged = 2

----------------------------------------------------------------------------
(* Properties of runTestsInParallel *)

(* C26: runTestsInParallel(tests, {concurrency: c}) with c >= 2 and at least
   two tests starts a later test while an earlier one is still in flight,
   and never has more than c tests in flight. *)
C26_RunsTestsInParallel ==
    (parallelOptions.concurrency.some /\ concurrency >= 2 /\ testCount >= 2) =>
        /\ maxInFlight <= concurrency
        /\ ppc = "resolved" => overlapped

(* What the code does: each test is awaited before the next one is
   scheduled, so at most one test is in flight *)
ParallelIsSequential == maxInFlight <= 1 /\ ~overlapped

----------------------------------------------------------------------------
(* Properties of createFactory *)

(* C27: a factory made by createFactory passes the seed 1 to the default
   factory on its first call and a seed one larger on each following call,
   none repeated or skipped, each factory counting on its own; the fields
   given in overrides replace the generated ones in the result, the others
   are the generated ones. *)
C27_SeedsCountUpPerFactory ==
    /\ \A f \in FactoryNames : passed[f] = UpTo(Len(passed[f]))
    /\ (lastCall.factory \in FactoryNames /\ ~lastCall.threw) =>
          LET sd == passed[lastCall.factory][Len(passed[lastCall.factory])]
          IN /\ DOMAIN lastCall.result = Fields
             /\ \A k \in Fields :
                   lastCall.result[k] =
                     IF k \in DOMAIN lastCall.overrides
                       THEN lastCall.overrides[k] ELSE <<k, "_", sd>>

C27_Witness ==
    /\ passed["productFactory"] = <<1, 2, 3>>
    /\ passed["userFactory"] = <<1>>
    /\ lastCall.factory = "userFactory"
    /\ ~lastCall.threw
    /\ DOMAIN lastCall.overrides = {"name"}
    /\ lastCall.result = [id |-> <<"id", "_", 1>>, name |-> <<"custom">>]

----------------------------------------------------------------------------
(* Properties of HttpMockServer *)

AcceptsAt(k, req) == k \in 1..Len(interceptors) /\ req \in interceptors[k].accepts

(* C28: handleRequest appends the request to the log, also when no
   interceptor matches; it calls match on the interceptors in addInterceptor
   order up to the first that matches, calls handle on that one only and
   answers with its result; when none matches it has called match on all of
   them, handle on none, and answers with the fallback response of that
   moment: 404 'No mock configured' unless setFallback has changed it. *)
C28_FirstMatchingInterceptorAnswers ==
    [][ /\ serverOp' = "handleRequest" =>
            /\ serverRequests' = Append(serverRequests, handled'.req)
            /\ \A k \in 1..Len(interceptors) :
                  (AcceptsAt(k, handled'.req)
                   /\ \A j \in 1..(k - 1) : ~AcceptsAt(j, handled'.req)) =>
                      /\ handled'.matchCalls = [j \in 1..k |-> interceptors[j].id]
                      /\ handled'.handleCalls = <<interceptors[k].id>>
                      /\ answer'.kind = "pending"
                      /\ waitingFor' = interceptors[k]
            /\ (\A k \in 1..Len(interceptors) : ~AcceptsAt(k, handled'.req)) =>
                  /\ Len(handled'.matchCalls) = Len(interceptors)
                  /\ handled'.handleCalls = <<>>
                  /\ answer' = [kind |-> "resolved", response |-> fallbackResponse]
        /\ serverOp' = "handleSettles" =>
            /\ handled' = handled
            /\ answer'.kind \in {"resolved", "rejected"}
            /\ handled.handleCalls = <<waitingFor.id>>
            /\ answer'.kind = "resolved" =>
                  answer'.response = [status |-> 200, data |-> ToString(waitingFor.id)]
        /\ (serverOp' # "setFallback" /\ fallbackResponse = DefaultFallback) =>
              fallbackResponse' = [status |-> 404, data |-> "No mock configured"]
      ]_vars

C28_Witness ==
    /\ serverOp = "handleSettles"
    /\ Len(interceptors) = 2
    /\ interceptors[1].accepts = {}
    /\ interceptors[2].accepts = {"GET"}
    /\ handled = [req |-> "GET", matchCalls |-> <<1, 2>>, handleCalls |-> <<2>>]
    /\ answer = AnswerResolved(HttpResponse(200, "2"))
    /\ serverRequests = <<"POST", "GET">>

C28_WitnessFallback ==
    /\ serverOp = "handleRequest"
    /\ fallbackResponse # DefaultFallback
    /\ Len(interceptors) = 2
    /\ handled = [req |-> "POST", matchCalls |-> <<1, 2>>, handleCalls |-> <<>>]
    /\ answer = AnswerResolved(fallbackResponse)

C28_WitnessFirstOfTwo ==
    /\ serverOp = "handleRequest"
    /\ Len(interceptors) = 2
    /\ interceptors[1].accepts = Methods
    /\ interceptors[2].accepts = Methods
    /\ handled.matchCalls = <<1>>
    /\ handled.handleCalls = <<1>>

----------------------------------------------------------------------------
(* Properties of withFixture *)

EventsNamed(names) == SelectSeq(fixtureEvents, LAMBDA e : e.ev \in names)

TestFnEnded == {"testFn threw", "testFn resolved", "testFn rejected"}

TestFnFailed == {"testFn threw", "testFn rejected"}

FixtureEnded == fpc \in {"resolved", "rejected"}

(* teardown is called exactly once with the value setup gave, after testFn
   has finished, whether testFn completed or threw; nothing but setup is
   called when setup fails *)
TeardownOnceAfterTest ==
    /\ Len(EventsNamed({"teardown"})) <= 1
    /\ (FixtureEnded /\ EventsNamed({"setup resolved"}) # <<>>) =>
          LET d == EventsNamed({"setup resolved"})[1].arg
              es == EventsNamed({"testFn", "teardown"} \cup TestFnEnded)
          IN /\ Len(es) = 3
             /\ es[1] = FixtureEv("testFn", d)
             /\ es[2].ev \in TestFnEnded
             /\ es[3] = FixtureEv("teardown", d)
    /\ (FixtureEnded /\ fixtureRaised \in SetupErrors) =>
          fixtureEvents = <<FixtureEv("setup", "")>>

(* C29 as stated: besides the above, whenever testFn has thrown, withFixture
   rejects with testFn's error. *)
C29_TestErrorAlwaysPropagated ==
    /\ TeardownOnceAfterTest
    /\ (FixtureEnded /\ EventsNamed(TestFnFailed) # <<>>) =>
          /\ fpc = "rejected"
          /\ fixtureRaised = EventsNamed(TestFnFailed)[1].arg

(* C29, amended: teardown is called exactly once with the value setup gave,
   after testFn has finished, whether testFn completed or threw; when setup
   fails neither testFn nor teardown is called; when testFn has thrown and
   teardown completes, withFixture rejects with testFn's error; when
   teardown fails, withFixture rejects with teardown's error, also in the
   place of testFn's. *)
C29_TeardownOnceErrorPropagated ==
    /\ TeardownOnceAfterTest
    /\ (FixtureEnded /\ EventsNamed(TestFnFailed) # <<>>
        /\ EventsNamed({"teardown resolved"}) # <<>>) =>
          /\ fpc = "rejected"
          /\ fixtureRaised = EventsNamed(TestFnFailed)[1].arg
    /\ (FixtureEnded /\ EventsNamed({"teardown rejected"}) # <<>>) =>
          /\ fpc = "rejected"
          /\ fixtureRaised = EventsNamed({"teardown rejected"})[1].arg
    /\ (FixtureEnded /\ EventsNamed({"testFn resolved"}) # <<>>
        /\ EventsNamed({"teardown resolved"}) # <<>>) => fpc = "resolved"

C29_Witness ==
    /\ fpc = "rejected"
    /\ fixtureRaised = "assertionError"
    /\ fixtureEvents = <<FixtureEv("setup", ""), FixtureEv("setup resolved", "user2"),
                         FixtureEv("testFn", "user2"),
                         FixtureEv("testFn rejected", "assertionError"),
                         FixtureEv("teardown", "user2"),
                         FixtureEv("teardown resolved", "")>>

C29_WitnessMasked ==
    /\ fpc = "rejected"
    /\ fixtureRaised = "teardownError"
    /\ EventsNamed(TestFnFailed) # <<>>

----------------------------------------------------------------------------
(* Properties of TestDatabase *)

NeedsConnection == {"query", "execute", "seed", "clear", "transaction"}

(* C30: connected is true exactly between a successful connect() and the
   next disconnect(). query, execute, seed, clear and transaction called
   while it is false fail with 'Database not connected' and change nothing;
   called while it is true they do not fail so. connect() on a connected
   database and disconnect() on a disconnected one succeed and change
   nothing; connect() with an empty url fails and leaves the database
   disconnected. *)
C30_ConnectedFlagGuardsCalls ==
    /\ [](connected <=> lastConnection = "connected")
    /\ [][
         /\ (dbResult'.op \in NeedsConnection /\ ~connected) =>
               /\ dbResult'.outcome = "Database not connected"
               /\ <<dbUrl, connected, seedData, tpc>>' = <<dbUrl, connected, seedData, tpc>>
         /\ (dbResult'.op \in NeedsConnection /\ connected) =>
               /\ dbResult'.outcome = "ok"
               /\ connected'
         /\ (dbResult'.op = "connect" /\ connected) =>
               /\ dbResult'.outcome = "ok"
               /\ <<dbUrl, connected, seedData, tpc>>' = <<dbUrl, connected, seedData, tpc>>
         /\ (dbResult'.op = "disconnect" /\ ~connected) =>
               /\ dbResult'.outcome = "ok"
               /\ <<dbUrl, connected, seedData, tpc>>' = <<dbUrl, connected, seedData, tpc>>
         /\ (dbResult'.op = "connect" /\ ~connected) =>
               IF dbUrl = ""
                 THEN dbResult'.outcome = "Database URL is required" /\ ~connected'
                 ELSE dbResult'.outcome = "ok" /\ connected'
         /\ dbResult'.op = "disconnect" => ~connected'
       ]_vars

C30_Witness ==
    /\ dbResult = DbResult("seed", NotConnected)
    /\ ~connected
    /\ lastConnection = "disconnected"
    /\ seedData = {"users"}

C30_WitnessEmptyUrl ==
    /\ dbResult = DbResult("connect", UrlRequired)
    /\ ~connected
    /\ dbUrl = ""

====
